---- MODULE Spec2Model ----
(***************************************************************************)
(* Model of src/app.py: a Flask service that reads a news feed, asks a     *)
(* generation API for tags of the headlines and keeps them in the          *)
(* process-wide dictionary TAGS_CACHE.                                     *)
(*                                                                         *)
(* Text is modelled as a sequence of characters.  A character is a string: *)
(* an ASCII character stands for itself, any other character is written as *)
(* its code point ("U+3001" is the ideographic comma).                     *)
(***************************************************************************)
EXTENDS Integers, Sequences, FiniteSets, TLC

VARIABLES
    TAGS_CACHE,   \* the dictionary of line 29: title -> list of tags
    environ,      \* os.environ, the two credential variables
    genCalls,     \* the generation requests sent so far (the titles of each)
    nCalls,       \* number of calls of generate_tags_for_titles begun so far
    call,         \* record of the call of generate_tags_for_titles that ended last
    feed,         \* what the feed URL answers to fetch_rss_items
    max_items,    \* the max_items argument of fetch_rss_items
    fetched,      \* outcome of fetch_rss_items
    fragment,     \* one element of raw_tags (line 161)
    cleaned,      \* what the cleaning loop of lines 165-173 did with it
    server,       \* how the process was started and what it has done
    reply,        \* the last response of get_category_news
    threads,      \* the threads of the process and where each of them is
    overlapped    \* two threads were at work at the same time

vars == <<TAGS_CACHE, environ, genCalls, nCalls, call,
          feed, max_items, fetched, fragment, cleaned,
          server, reply, threads, overlapped>>

serviceVars == <<TAGS_CACHE, environ, genCalls, nCalls, call>>
fetchVars == <<feed, max_items, fetched>>
tagVars == <<fragment, cleaned>>
serverVars == <<server, reply>>
threadVars == <<threads, overlapped>>

---------------------------------------------------------------------------
(* Bounds of the model. *)

MaxCalls == 2      \* calls of generate_tags_for_titles in one behaviour
MaxItems == 2      \* length of the item list passed to one call
MaxFeedLen == 3    \* item elements of an enumerated feed document
MaxFragLen == 3    \* characters of an enumerated tag fragment

---------------------------------------------------------------------------
(* Python's str methods, as far as the program uses them. *)

Range(s) == {s[i] : i \in 1..Len(s)}

Take(s, n) == SubSeq(s, 1, IF n < Len(s) THEN n ELSE Len(s))

\* characters str.strip() removes (those for which str.isspace() is true)
Whitespace ==
    {"\t", "\n", "U+000B", "U+000C", "\r", "U+001C", "U+001D",
     "U+001E", "U+001F", " ", "U+0085", "U+00A0", "U+1680", "U+2000",
     "U+2001", "U+2002", "U+2003", "U+2004", "U+2005", "U+2006", "U+2007",
     "U+2008", "U+2009", "U+200A", "U+2028", "U+2029", "U+202F", "U+205F",
     "U+3000"}

\* characters str.splitlines() breaks at
LineBreaks ==
    {"\n", "U+000B", "U+000C", "\r", "U+001C", "U+001D", "U+001E",
     "U+0085", "U+2028", "U+2029"}

\* characters for which str.isdigit() is true: the decimal digits of every
\* script, superscript and subscript digits, circled, parenthesised and
\* dotted digits
Digit ==
    {"0", "1", "2", "3", "4", "5", "6",
     "7", "8", "9", "U+00B2", "U+00B3", "U+00B9", "U+0660",
     "U+0661", "U+0662", "U+0663", "U+0664", "U+0665", "U+0666", "U+0667",
     "U+0668", "U+0669", "U+06F0", "U+06F1", "U+06F2", "U+06F3", "U+06F4",
     "U+06F5", "U+06F6", "U+06F7", "U+06F8", "U+06F9", "U+07C0", "U+07C1",
     "U+07C2", "U+07C3", "U+07C4", "U+07C5", "U+07C6", "U+07C7", "U+07C8",
     "U+07C9", "U+0966", "U+0967", "U+0968", "U+0969", "U+096A", "U+096B",
     "U+096C", "U+096D", "U+096E", "U+096F", "U+09E6", "U+09E7", "U+09E8",
     "U+09E9", "U+09EA", "U+09EB", "U+09EC", "U+09ED", "U+09EE", "U+09EF",
     "U+0A66", "U+0A67", "U+0A68", "U+0A69", "U+0A6A", "U+0A6B", "U+0A6C",
     "U+0A6D", "U+0A6E", "U+0A6F", "U+0AE6", "U+0AE7", "U+0AE8", "U+0AE9",
     "U+0AEA", "U+0AEB", "U+0AEC", "U+0AED", "U+0AEE", "U+0AEF", "U+0B66",
     "U+0B67", "U+0B68", "U+0B69", "U+0B6A", "U+0B6B", "U+0B6C", "U+0B6D",
     "U+0B6E", "U+0B6F", "U+0BE6", "U+0BE7", "U+0BE8", "U+0BE9", "U+0BEA",
     "U+0BEB", "U+0BEC", "U+0BED", "U+0BEE", "U+0BEF", "U+0C66", "U+0C67",
     "U+0C68", "U+0C69", "U+0C6A", "U+0C6B", "U+0C6C", "U+0C6D", "U+0C6E",
     "U+0C6F", "U+0CE6", "U+0CE7", "U+0CE8", "U+0CE9", "U+0CEA", "U+0CEB",
     "U+0CEC", "U+0CED", "U+0CEE", "U+0CEF", "U+0D66", "U+0D67", "U+0D68",
     "U+0D69", "U+0D6A", "U+0D6B", "U+0D6C", "U+0D6D", "U+0D6E", "U+0D6F",
     "U+0DE6", "U+0DE7", "U+0DE8", "U+0DE9", "U+0DEA", "U+0DEB", "U+0DEC",
     "U+0DED", "U+0DEE", "U+0DEF", "U+0E50", "U+0E51", "U+0E52", "U+0E53",
     "U+0E54", "U+0E55", "U+0E56", "U+0E57", "U+0E58", "U+0E59", "U+0ED0",
     "U+0ED1", "U+0ED2", "U+0ED3", "U+0ED4", "U+0ED5", "U+0ED6", "U+0ED7",
     "U+0ED8", "U+0ED9", "U+0F20", "U+0F21", "U+0F22", "U+0F23", "U+0F24",
     "U+0F25", "U+0F26", "U+0F27", "U+0F28", "U+0F29", "U+1040", "U+1041",
     "U+1042", "U+1043", "U+1044", "U+1045", "U+1046", "U+1047", "U+1048",
     "U+1049", "U+1090", "U+1091", "U+1092", "U+1093", "U+1094", "U+1095",
     "U+1096", "U+1097", "U+1098", "U+1099", "U+1369", "U+136A", "U+136B",
     "U+136C", "U+136D", "U+136E", "U+136F", "U+1370", "U+1371", "U+17E0",
     "U+17E1", "U+17E2", "U+17E3", "U+17E4", "U+17E5", "U+17E6", "U+17E7",
     "U+17E8", "U+17E9", "U+1810", "U+1811", "U+1812", "U+1813", "U+1814",
     "U+1815", "U+1816", "U+1817", "U+1818", "U+1819", "U+1946", "U+1947",
     "U+1948", "U+1949", "U+194A", "U+194B", "U+194C", "U+194D", "U+194E",
     "U+194F", "U+19D0", "U+19D1", "U+19D2", "U+19D3", "U+19D4", "U+19D5",
     "U+19D6", "U+19D7", "U+19D8", "U+19D9", "U+19DA", "U+1A80", "U+1A81",
     "U+1A82", "U+1A83", "U+1A84", "U+1A85", "U+1A86", "U+1A87", "U+1A88",
     "U+1A89", "U+1A90", "U+1A91", "U+1A92", "U+1A93", "U+1A94", "U+1A95",
     "U+1A96", "U+1A97", "U+1A98", "U+1A99", "U+1B50", "U+1B51", "U+1B52",
     "U+1B53", "U+1B54", "U+1B55", "U+1B56", "U+1B57", "U+1B58", "U+1B59",
     "U+1BB0", "U+1BB1", "U+1BB2", "U+1BB3", "U+1BB4", "U+1BB5", "U+1BB6",
     "U+1BB7", "U+1BB8", "U+1BB9", "U+1C40", "U+1C41", "U+1C42", "U+1C43",
     "U+1C44", "U+1C45", "U+1C46", "U+1C47", "U+1C48", "U+1C49", "U+1C50",
     "U+1C51", "U+1C52", "U+1C53", "U+1C54", "U+1C55", "U+1C56", "U+1C57",
     "U+1C58", "U+1C59", "U+2070", "U+2074", "U+2075", "U+2076", "U+2077",
     "U+2078", "U+2079", "U+2080", "U+2081", "U+2082", "U+2083", "U+2084",
     "U+2085", "U+2086", "U+2087", "U+2088", "U+2089", "U+2460", "U+2461",
     "U+2462", "U+2463", "U+2464", "U+2465", "U+2466", "U+2467", "U+2468",
     "U+2474", "U+2475", "U+2476", "U+2477", "U+2478", "U+2479", "U+247A",
     "U+247B", "U+247C", "U+2488", "U+2489", "U+248A", "U+248B", "U+248C",
     "U+248D", "U+248E", "U+248F", "U+2490", "U+24EA", "U+24F5", "U+24F6",
     "U+24F7", "U+24F8", "U+24F9", "U+24FA", "U+24FB", "U+24FC", "U+24FD",
     "U+24FF", "U+2776", "U+2777", "U+2778", "U+2779", "U+277A", "U+277B",
     "U+277C", "U+277D", "U+277E", "U+2780", "U+2781", "U+2782", "U+2783",
     "U+2784", "U+2785", "U+2786", "U+2787", "U+2788", "U+278A", "U+278B",
     "U+278C", "U+278D", "U+278E", "U+278F", "U+2790", "U+2791", "U+2792",
     "U+A620", "U+A621", "U+A622", "U+A623", "U+A624", "U+A625", "U+A626",
     "U+A627", "U+A628", "U+A629", "U+A8D0", "U+A8D1", "U+A8D2", "U+A8D3",
     "U+A8D4", "U+A8D5", "U+A8D6", "U+A8D7", "U+A8D8", "U+A8D9", "U+A900",
     "U+A901", "U+A902", "U+A903", "U+A904", "U+A905", "U+A906", "U+A907",
     "U+A908", "U+A909", "U+A9D0", "U+A9D1", "U+A9D2", "U+A9D3", "U+A9D4",
     "U+A9D5", "U+A9D6", "U+A9D7", "U+A9D8", "U+A9D9", "U+A9F0", "U+A9F1",
     "U+A9F2", "U+A9F3", "U+A9F4", "U+A9F5", "U+A9F6", "U+A9F7", "U+A9F8",
     "U+A9F9", "U+AA50", "U+AA51", "U+AA52", "U+AA53", "U+AA54", "U+AA55",
     "U+AA56", "U+AA57", "U+AA58", "U+AA59", "U+ABF0", "U+ABF1", "U+ABF2",
     "U+ABF3", "U+ABF4", "U+ABF5", "U+ABF6", "U+ABF7", "U+ABF8", "U+ABF9",
     "U+FF10", "U+FF11", "U+FF12", "U+FF13", "U+FF14", "U+FF15", "U+FF16",
     "U+FF17", "U+FF18", "U+FF19", "U+104A0", "U+104A1", "U+104A2", "U+104A3",
     "U+104A4", "U+104A5", "U+104A6", "U+104A7", "U+104A8", "U+104A9", "U+10A40",
     "U+10A41", "U+10A42", "U+10A43", "U+10D30", "U+10D31", "U+10D32", "U+10D33",
     "U+10D34", "U+10D35", "U+10D36", "U+10D37", "U+10D38", "U+10D39", "U+10E60",
     "U+10E61", "U+10E62", "U+10E63", "U+10E64", "U+10E65", "U+10E66", "U+10E67",
     "U+10E68", "U+11052", "U+11053", "U+11054", "U+11055", "U+11056", "U+11057",
     "U+11058", "U+11059", "U+1105A", "U+11066", "U+11067", "U+11068", "U+11069",
     "U+1106A", "U+1106B", "U+1106C", "U+1106D", "U+1106E", "U+1106F", "U+110F0",
     "U+110F1", "U+110F2", "U+110F3", "U+110F4", "U+110F5", "U+110F6", "U+110F7",
     "U+110F8", "U+110F9", "U+11136", "U+11137", "U+11138", "U+11139", "U+1113A",
     "U+1113B", "U+1113C", "U+1113D", "U+1113E", "U+1113F", "U+111D0", "U+111D1",
     "U+111D2", "U+111D3", "U+111D4", "U+111D5", "U+111D6", "U+111D7", "U+111D8",
     "U+111D9", "U+112F0", "U+112F1", "U+112F2", "U+112F3", "U+112F4", "U+112F5",
     "U+112F6", "U+112F7", "U+112F8", "U+112F9", "U+11450", "U+11451", "U+11452",
     "U+11453", "U+11454", "U+11455", "U+11456", "U+11457", "U+11458", "U+11459",
     "U+114D0", "U+114D1", "U+114D2", "U+114D3", "U+114D4", "U+114D5", "U+114D6",
     "U+114D7", "U+114D8", "U+114D9", "U+11650", "U+11651", "U+11652", "U+11653",
     "U+11654", "U+11655", "U+11656", "U+11657", "U+11658", "U+11659", "U+116C0",
     "U+116C1", "U+116C2", "U+116C3", "U+116C4", "U+116C5", "U+116C6", "U+116C7",
     "U+116C8", "U+116C9", "U+11730", "U+11731", "U+11732", "U+11733", "U+11734",
     "U+11735", "U+11736", "U+11737", "U+11738", "U+11739", "U+118E0", "U+118E1",
     "U+118E2", "U+118E3", "U+118E4", "U+118E5", "U+118E6", "U+118E7", "U+118E8",
     "U+118E9", "U+11950", "U+11951", "U+11952", "U+11953", "U+11954", "U+11955",
     "U+11956", "U+11957", "U+11958", "U+11959", "U+11C50", "U+11C51", "U+11C52",
     "U+11C53", "U+11C54", "U+11C55", "U+11C56", "U+11C57", "U+11C58", "U+11C59",
     "U+11D50", "U+11D51", "U+11D52", "U+11D53", "U+11D54", "U+11D55", "U+11D56",
     "U+11D57", "U+11D58", "U+11D59", "U+11DA0", "U+11DA1", "U+11DA2", "U+11DA3",
     "U+11DA4", "U+11DA5", "U+11DA6", "U+11DA7", "U+11DA8", "U+11DA9", "U+16A60",
     "U+16A61", "U+16A62", "U+16A63", "U+16A64", "U+16A65", "U+16A66", "U+16A67",
     "U+16A68", "U+16A69", "U+16AC0", "U+16AC1", "U+16AC2", "U+16AC3", "U+16AC4",
     "U+16AC5", "U+16AC6", "U+16AC7", "U+16AC8", "U+16AC9", "U+16B50", "U+16B51",
     "U+16B52", "U+16B53", "U+16B54", "U+16B55", "U+16B56", "U+16B57", "U+16B58",
     "U+16B59", "U+1D7CE", "U+1D7CF", "U+1D7D0", "U+1D7D1", "U+1D7D2", "U+1D7D3",
     "U+1D7D4", "U+1D7D5", "U+1D7D6", "U+1D7D7", "U+1D7D8", "U+1D7D9", "U+1D7DA",
     "U+1D7DB", "U+1D7DC", "U+1D7DD", "U+1D7DE", "U+1D7DF", "U+1D7E0", "U+1D7E1",
     "U+1D7E2", "U+1D7E3", "U+1D7E4", "U+1D7E5", "U+1D7E6", "U+1D7E7", "U+1D7E8",
     "U+1D7E9", "U+1D7EA", "U+1D7EB", "U+1D7EC", "U+1D7ED", "U+1D7EE", "U+1D7EF",
     "U+1D7F0", "U+1D7F1", "U+1D7F2", "U+1D7F3", "U+1D7F4", "U+1D7F5", "U+1D7F6",
     "U+1D7F7", "U+1D7F8", "U+1D7F9", "U+1D7FA", "U+1D7FB", "U+1D7FC", "U+1D7FD",
     "U+1D7FE", "U+1D7FF", "U+1E140", "U+1E141", "U+1E142", "U+1E143", "U+1E144",
     "U+1E145", "U+1E146", "U+1E147", "U+1E148", "U+1E149", "U+1E2F0", "U+1E2F1",
     "U+1E2F2", "U+1E2F3", "U+1E2F4", "U+1E2F5", "U+1E2F6", "U+1E2F7", "U+1E2F8",
     "U+1E2F9", "U+1E950", "U+1E951", "U+1E952", "U+1E953", "U+1E954", "U+1E955",
     "U+1E956", "U+1E957", "U+1E958", "U+1E959", "U+1F100", "U+1F101", "U+1F102",
     "U+1F103", "U+1F104", "U+1F105", "U+1F106", "U+1F107", "U+1F108", "U+1F109",
     "U+1F10A", "U+1FBF0", "U+1FBF1", "U+1FBF2", "U+1FBF3", "U+1FBF4", "U+1FBF5",
     "U+1FBF6", "U+1FBF7", "U+1FBF8", "U+1FBF9"}

RECURSIVE LStrip(_)
LStrip(s) ==
    IF s # <<>> /\ Head(s) \in Whitespace THEN LStrip(Tail(s)) ELSE s

RECURSIVE RStrip(_)
RStrip(s) ==
    IF s # <<>> /\ s[Len(s)] \in Whitespace
    THEN RStrip(SubSeq(s, 1, Len(s) - 1)) ELSE s

Strip(s) == RStrip(LStrip(s))

\* str.find(c) + 1: position of the first c in s, 0 when there is none
Find(s, c) ==
    IF c \in Range(s) THEN CHOOSE i \in 1..Len(s) :
                               s[i] = c /\ \A j \in 1..(i - 1) : s[j] # c
    ELSE 0

\* str.isdigit()
IsDigitStr(s) == s # <<>> /\ \A i \in 1..Len(s) : s[i] \in Digit

\* str.replace(a, b) for single characters
Replace(s, a, b) == [i \in 1..Len(s) |-> IF s[i] = a THEN b ELSE s[i]]

\* str.split(c): the pieces between the occurrences of c, empty ones kept
RECURSIVE Split(_, _)
Split(s, c) ==
    LET i == Find(s, c)
    IN  IF i = 0 THEN <<s>>
        ELSE <<SubSeq(s, 1, i - 1)>> \o Split(SubSeq(s, i + 1, Len(s)), c)

\* str.split(c, 1)[-1]: what follows the first c, the whole of s without c
AfterFirst(s, c) == SubSeq(s, Find(s, c) + 1, Len(s))

\* str.splitlines(): the lines of s, no empty last line
RECURSIVE SplitLines(_)
SplitLines(s) ==
    IF s = <<>> THEN <<>>
    ELSE IF \E i \in 1..Len(s) : s[i] \in LineBreaks
         THEN LET i == CHOOSE k \in 1..Len(s) :
                          s[k] \in LineBreaks
                          /\ \A j \in 1..(k - 1) : s[j] \notin LineBreaks
                  j == IF s[i] = "\r" /\ i < Len(s) /\ s[i + 1] = "\n"
                       THEN i + 1 ELSE i
              IN  <<SubSeq(s, 1, i - 1)>> \o SplitLines(SubSeq(s, j + 1, Len(s)))
         ELSE <<s>>

---------------------------------------------------------------------------
(* The tag cleaning of generate_tags_for_titles, lines 158-176. *)

\* lines 168-169 (and 67-70 for titles and summaries): drop a leading
\* "<digit>." or "<digit> "
StripNumberPrefix(t) ==
    IF Len(t) > 2 /\ t[1] \in Digit /\ t[2] \in {".", " "}
    THEN Strip(SubSeq(t, Find(t, t[2]) + 1, Len(t)))
    ELSE t

\* line 172: the condition under which a cleaned fragment becomes a tag
KeepTag(t) == t # <<>> /\ ~IsDigitStr(t) /\ Len(t) > 1

\* line 158
TagsPart(line) ==
    IF ":" \in Range(line) THEN Strip(AfterFirst(line, ":")) ELSE Strip(line)

\* line 161
RawTags(line) ==
    LET pieces == Split(Replace(TagsPart(line), "U+3001", ","), ",")
    IN  [i \in 1..Len(pieces) |-> Strip(pieces[i])]

\* lines 164-173
CleanTags(raw_tags) ==
    LET stripped == [i \in 1..Len(raw_tags) |->
                        StripNumberPrefix(Strip(raw_tags[i]))]
    IN  SelectSeq(stripped, KeepTag)

\* a variant that stores every tag of the line
LineTags_Mut(line) == CleanTags(RawTags(line))

\* lines 158-176: the list stored for one response line
LineTags(line) == Take(CleanTags(RawTags(line)), 3)

\* line 152
NonEmptyLines(text) ==
    LET ls == SplitLines(text)
        stripped == [i \in 1..Len(ls) |-> Strip(ls[i])]
    IN  SelectSeq(stripped, LAMBDA ln : ln # <<>>)

---------------------------------------------------------------------------
(* The answer of the generation API, lines 131-149.                        *)
(* A JSON value is [kind, val]: null, a number, a string (characters), a   *)
(* list (sequence of values) or a dict (function from field names).        *)

JNull == [kind |-> "null", val |-> <<>>]
JNum == [kind |-> "num", val |-> <<>>]
JStr(chars) == [kind |-> "str", val |-> chars]
JList(elems) == [kind |-> "list", val |-> elems]
JDict(fields) == [kind |-> "dict", val |-> fields]

\* result of evaluating an expression: a value, or the exception raised
Value(v) == [exc |-> "none", val |-> v]
Raise(e) == [exc |-> e, val |-> JNull]

\* v[name] for a string subscript
GetItemStr(v, name) ==
    CASE v.kind = "dict" ->
            IF name \in DOMAIN v.val THEN Value(v.val[name])
            ELSE Raise("KeyError")
      [] OTHER -> Raise("TypeError")

\* v[0]
GetItem0(v) ==
    CASE v.kind = "dict" -> Raise("KeyError")
      [] v.kind = "list" ->
            IF v.val # <<>> THEN Value(v.val[1]) ELSE Raise("IndexError")
      [] v.kind = "str" ->
            IF v.val # <<>> THEN Value(JStr(<<v.val[1]>>))
            ELSE Raise("IndexError")
      [] OTHER -> Raise("TypeError")

ThenStr(r, name) == IF r.exc = "none" THEN GetItemStr(r.val, name) ELSE r
Then0(r) == IF r.exc = "none" THEN GetItem0(r.val) ELSE r

\* line 143: data["candidates"][0]["content"]["parts"][0]["text"].strip()
ResponseText(data) ==
    LET r == ThenStr(Then0(ThenStr(ThenStr(Then0(
                 ThenStr(Value(data), "candidates")), "content"), "parts")),
                 "text")
    IN  IF r.exc # "none" THEN r
        ELSE IF r.val.kind = "str" THEN Value(JStr(Strip(r.val.val)))
        ELSE Raise("AttributeError")

\* the JSON document Gemini sends for a completion text
Completion(textValue) ==
    JDict([candidates |-> JList(<<
        JDict([content |-> JDict([parts |-> JList(<<
            JDict([text |-> textValue]) >>)]) ]) >>)])

---------------------------------------------------------------------------
(* The inputs of the model. *)

\* headlines, as fetch_rss_items leaves them (non-empty, line 72)
FooNews == <<"F", "o", "o", " ", "N", "e", "w", "s">>
BarNews == <<"B", "a", "r", " ", "N", "e", "w", "s">>

\* the dictionaries appended at lines 73-80
FeedItem(title, link) ==
    [title |-> title, link |-> link, summary |-> <<>>, published |-> <<>>]

\* three articles: the third has the headline of the first and the link of
\* the second
Items == {FeedItem(FooNews, <<"a">>), FeedItem(BarNews, <<"b">>),
          FeedItem(FooNews, <<"b">>)}

RECURSIVE SeqsUpTo(_, _)
SeqsUpTo(S, n) ==
    IF n = 0 THEN {<<>>}
    ELSE LET shorter == SeqsUpTo(S, n - 1)
         IN  shorter \cup {Append(q, x) : q \in shorter, x \in S}

\* the item lists passed to generate_tags_for_titles: no article twice
ItemLists ==
    {q \in SeqsUpTo(Items, MaxItems) : Cardinality(Range(q)) = Len(q)}

\* completion texts of the generation API
TagA == <<"U+30BF", "U+30B0", "A">>
TagB == <<"U+30BF", "U+30B0", "B">>
TagC == <<"U+30BF", "U+30B0", "C">>
Keizai == <<"U+7D4C", "U+6E08">>
Kabuka == <<"U+682A", "U+4FA1">>
Enyasu == <<"U+5186", "U+5B89">>
Nichigin == <<"U+65E5", "U+9280">>
Gaikou == <<"U+5916", "U+4EA4">>

CompletionText(name) ==
    CASE name = "two_lines" ->
            TagA \o <<",", " ">> \o TagB \o <<"\n">> \o TagC
      [] name = "labelled" ->
            <<"1", ":", " ">> \o Keizai \o <<",", " ">> \o Kabuka
            \o <<"U+3001">> \o Enyasu \o <<",">> \o Nichigin \o <<"\n">>
            \o <<"2", ":", " ", "1", ".">> \o Gaikou
            \o <<",", " ", ".", ".", ".", ",", "U+7D4C", ",", "7">>
      [] name = "one_line" -> <<" ">> \o TagC \o <<"\n">>
      [] name = "blank" -> <<" ", "\n", " ">>
      [] name = "three_lines" ->
            <<"a", "1", "\n", "\n", "b", "2", "\r", "\n", "c", "3">>

CompletionTexts == {"two_lines", "labelled", "one_line", "blank", "three_lines"}

\* what urlopen and json.loads give for a generation request (lines 131-133)
GenOutcomes ==
    {"URLError", "bad_json", "json_null", "empty_candidates", "no_text",
     "text_null"} \cup CompletionTexts

\* outcomes in which urlopen or resp.read raises
TransportErrors == {"URLError"}

\* outcomes in which json.loads raises
UnparseableBodies == {"bad_json"}

\* the value of json.loads for the other outcomes
ResponseData(o) ==
    CASE o = "json_null" -> JNull
      [] o = "empty_candidates" -> JDict([candidates |-> JList(<<>>)])
      [] o = "no_text" ->
            JDict([candidates |-> JList(<<
                JDict([content |-> JDict([parts |-> JList(<<
                    JDict([inlineData |-> JNum]) >>)]) ]) >>)])
      [] o = "text_null" -> Completion(JNull)
      [] o \in CompletionTexts -> Completion(JStr(CompletionText(o)))

\* os.environ.get(name): None when the variable is not set
None == "<None>"

\* environments the process is started in: no variable set, both empty,
\* the first set
Environments ==
    {[GEMINI_API_KEY |-> None, GOOGLE_API_KEY |-> None],
     [GEMINI_API_KEY |-> "", GOOGLE_API_KEY |-> ""],
     [GEMINI_API_KEY |-> "secret", GOOGLE_API_KEY |-> None]}

---------------------------------------------------------------------------
(* generate_tags_for_titles, lines 84-176. *)

\* lines 39-42: a or b
get_gemini_api_key(env) ==
    IF env.GEMINI_API_KEY \notin {None, ""} THEN env.GEMINI_API_KEY
    ELSE env.GOOGLE_API_KEY

\* a credential test that takes the empty string for a key
NoKey_Mut(api_key) == api_key = None

\* `not api_key`
NoKey(api_key) == api_key \in {None, ""}

\* TAGS_CACHE[title] = tags
Put(cache, title, tags) ==
    [k \in DOMAIN cache \cup {title} |-> IF k = title THEN tags ELSE cache[k]]

\* a selection that looks the link up in a cache keyed by title
UncachedItems_ByLink(cache, items) ==
    SelectSeq(items, LAMBDA it : it.title # <<>> /\ it.link \notin DOMAIN cache)

\* a selection that forgets to look into the cache
UncachedItems_Mut(cache, items) ==
    SelectSeq(items, LAMBDA it : it.title # <<>>)

\* line 88
UncachedItems(cache, items) ==
    SelectSeq(items, LAMBDA it : it.title # <<>> /\ it.title \notin DOMAIN cache)

\* line 92
Titles(items) == [i \in 1..Len(items) |-> items[i].title]

\* the loops of lines 99-100, 137-138 and 147-148
RECURSIVE SetEmpty(_, _)
SetEmpty(cache, titles) ==
    IF titles = <<>> THEN cache
    ELSE SetEmpty(Put(cache, Head(titles), <<>>), Tail(titles))

\* the loop of lines 153-176, from index idx on (idx counts from 1)
RECURSIVE StoreTags(_, _, _, _)
StoreTags(cache, uncached_titles, lines, idx) ==
    IF idx > Len(lines) \/ idx > Len(uncached_titles) THEN cache
    ELSE StoreTags(Put(cache, uncached_titles[idx], LineTags(lines[idx])),
                   uncached_titles, lines, idx + 1)

\* a loop that stops after the first title
EmptyWrites_Mut(titles) ==
    IF titles = <<>> THEN <<>> ELSE <<<<Head(titles), <<>>>>>>

\* the assignments TAGS_CACHE[title] = [] of the loops of lines 99-100,
\* 137-138 and 147-148, in the order they are made
EmptyWrites(titles) == [i \in 1..Len(titles) |-> <<titles[i], <<>>>>]

\* the assignments of line 176, in the order they are made
TagWrites(uncached_titles, lines) ==
    LET n == IF Len(lines) < Len(uncached_titles) THEN Len(lines)
             ELSE Len(uncached_titles)
    IN  [i \in 1..n |-> <<uncached_titles[i], LineTags(lines[i])>>]

\* what one call does: the cache it leaves, the generation request it sent
\* (none, or one with the uncached titles) and the exception it raised
Returned(cache, requests) ==
    [cache |-> cache, requests |-> requests, raised |-> "none"]

\* the assignments to TAGS_CACHE one call makes, in order
CacheWrites(cache, env, items, outcome) ==
    LET uncached_titles == Titles(UncachedItems(cache, items))
        text == ResponseText(ResponseData(outcome))
    IN  IF uncached_titles = <<>> THEN <<>>
        ELSE IF NoKey(get_gemini_api_key(env))
             THEN EmptyWrites(uncached_titles)
        ELSE IF outcome \in TransportErrors \cup UnparseableBodies
             THEN EmptyWrites(uncached_titles)
        ELSE IF text.exc \in {"KeyError", "IndexError", "TypeError"}
             THEN EmptyWrites(uncached_titles)
        ELSE IF text.exc # "none" THEN <<>>
        ELSE TagWrites(uncached_titles, NonEmptyLines(text.val.val))

generate_tags_for_titles(cache, env, items, outcome) ==
    LET uncached_titles == Titles(UncachedItems(cache, items))
        request == <<uncached_titles>>
        text == ResponseText(ResponseData(outcome))
    IN  IF uncached_titles = <<>> THEN Returned(cache, <<>>)
        ELSE IF NoKey(get_gemini_api_key(env))
             THEN Returned(SetEmpty(cache, uncached_titles), <<>>)
        ELSE IF outcome \in TransportErrors \cup UnparseableBodies
             THEN Returned(SetEmpty(cache, uncached_titles), request)
        ELSE IF text.exc \in {"KeyError", "IndexError", "TypeError"}
             THEN Returned(SetEmpty(cache, uncached_titles), request)
        ELSE IF text.exc # "none"
             THEN [cache |-> cache, requests |-> request, raised |-> text.exc]
        ELSE Returned(StoreTags(cache, uncached_titles,
                                NonEmptyLines(text.val.val), 1), request)

---------------------------------------------------------------------------
(* The process: threads that run generate_tags_for_titles on the shared    *)
(* cache.  The interpreter can switch threads between any two bytecodes    *)
(* and while urlopen waits, so a step of a thread is one access to         *)
(* TAGS_CACHE (a lookup of line 88, an assignment of lines 100, 138, 148   *)
(* or 176, a lookup of line 211) together with the thread's own            *)
(* computation up to its next access or wait.                              *)

ThreadIds == {1, 2}

NoFetch == [state |-> "idle", raised |-> "none", items |-> <<>>]
NoFragment == [state |-> "idle", tag |-> <<>>, kept |-> FALSE]

\* a thread that runs nothing.  view: the thread is inside
\* get_category_news; accepted: the cache when its request came in;
\* before: the cache when it entered generate_tags_for_titles; idx: the
\* item of the loop it is at; uncached: uncached_items as far as built;
\* pending: the assignments it has still to make; writes: those it made;
\* replaced: the keys it assigned that another call had put there;
\* news, looked: result_items and what each lookup of line 211 found
IdleThread ==
    [pc |-> "idle", view |-> FALSE, category |-> <<>>, accepted |-> <<>>,
     fetched |-> NoFetch, items |-> <<>>, idx |-> 0, uncached |-> <<>>,
     before |-> <<>>, outcome |-> "none", requests |-> <<>>,
     raised |-> "none", pending |-> <<>>, writes |-> <<>>, replaced |-> {},
     news |-> <<>>, looked |-> <<>>]

\* call.outcome is what the generation API answered, "none" when the call
\* sent no request; call.after is the cache when the call ended; there is
\* no last call (NoCall) once a thread has taken up new work
NoCall == [items |-> <<>>, before |-> <<>>, uncached |-> <<>>,
           outcome |-> "none", requests |-> <<>>, raised |-> "none",
           writes |-> <<>>, replaced |-> {}, after |-> <<>>]

CallRecord(th, cache) ==
    [items |-> th.items, before |-> th.before, uncached |-> th.uncached,
     outcome |-> th.outcome, requests |-> th.requests, raised |-> th.raised,
     writes |-> th.writes, replaced |-> th.replaced, after |-> cache]

\* the variables of fetch_rss_items and of the tag cleaning, at rest
InitOthers ==
    /\ feed = [kind |-> "none", items |-> <<>>]
    /\ max_items = 0
    /\ fetched = NoFetch
    /\ fragment = <<>>
    /\ cleaned = NoFragment

\* the process as a plain caller of generate_tags_for_titles: no HTTP layer
NoServer == [mode |-> "none", phase |-> "none", clears |-> 0, requests |-> 0,
             tagged |-> {}, taggedBefore |-> {}, sent |-> {}]
NoReply == [status |-> 0, category |-> <<>>, body |-> "none", news |-> <<>>,
            before |-> <<>>, fetched |-> NoFetch, requests |-> <<>>,
            writes |-> <<>>, looked |-> <<>>, after |-> <<>>]

\* no HTTP layer and no thread
InitNoServer ==
    /\ server = NoServer
    /\ reply = NoReply
    /\ threads = <<>>
    /\ overlapped = FALSE

\* the response of get_category_news that ends the request of thread th
Reply(status, body, th, cache) ==
    [status |-> status, category |-> th.category, body |-> body,
     news |-> th.news, before |-> th.accepted, fetched |-> th.fetched,
     requests |-> th.requests, writes |-> th.writes, looked |-> th.looked,
     after |-> cache]

\* the links of the uncached items that a line of the completion gave tags
TaggedLinks(cache, items, writes, outcome) ==
    IF outcome \notin CompletionTexts THEN {}
    ELSE LET uncached == UncachedItems(cache, items)
         IN  {uncached[i].link : i \in {j \in 1..Len(writes) : writes[j][2] # <<>>}}

\* the links of the items a call puts into its generation request
SentLinks(cache, items, requests) ==
    IF requests = <<>> THEN {}
    ELSE LET uncached == UncachedItems(cache, items)
         IN  {uncached[i].link : i \in 1..Len(uncached)}

\* lines 89-132, once uncached_items is built: return, or the assignments
\* of lines 99-100 to come, or the request sent and the wait for its answer
AfterScan(th, env) ==
    IF th.uncached = <<>> THEN [th EXCEPT !.pc = "done"]
    ELSE IF NoKey(get_gemini_api_key(env))
    THEN [th EXCEPT !.pc = "writing",
                    !.pending = EmptyWrites(Titles(th.uncached))]
    ELSE [th EXCEPT !.pc = "waiting", !.requests = <<Titles(th.uncached)>>]

\* the state after a step of thread t that leaves it as th2 and the cache
\* as cache2.  When the call of generate_tags_for_titles has ended
\* (th2.pc = "done") it is recorded in call, and the thread is free again
\* or, inside get_category_news, goes on to line 209 or ends with the
\* exception (status 500).
Finish(t, th2, cache2) ==
    /\ TAGS_CACHE' = cache2
    /\ IF th2.pc = "done"
       THEN /\ call' = CallRecord(th2, cache2)
            /\ IF ~th2.view
               THEN /\ threads' = [threads EXCEPT ![t] = IdleThread]
                    /\ UNCHANGED serverVars
               ELSE /\ server' = [server EXCEPT
                                    !.tagged = @ \cup TaggedLinks(
                                        <<>>, th2.uncached, th2.writes,
                                        th2.outcome)]
                    /\ IF th2.raised # "none"
                       THEN /\ threads' = [threads EXCEPT ![t] = IdleThread]
                            /\ reply' = Reply(500, "exception", th2, cache2)
                       ELSE /\ threads' = [threads EXCEPT
                                             ![t] = [th2 EXCEPT
                                                       !.pc = "assemble",
                                                       !.idx = 1]]
                            /\ UNCHANGED reply
       ELSE /\ threads' = [threads EXCEPT ![t] = th2]
            /\ call' = IF threads[t].pc \in {"idle", "fetching"} THEN NoCall
                       ELSE call
            /\ UNCHANGED reply
            /\ IF th2.view /\ th2.pc = "waiting" /\ threads[t].pc # "waiting"
               THEN server' = [server EXCEPT
                                 !.taggedBefore = server.tagged,
                                 !.sent = SentLinks(<<>>, th2.uncached,
                                                    th2.requests)]
               ELSE UNCHANGED server
    /\ overlapped' = (overlapped \/ \A u \in ThreadIds : threads'[u].pc # "idle")

\* a free thread takes the next piece of work; of two free threads the
\* first one does
Free(t) ==
    /\ threads[t].pc = "idle"
    /\ \A u \in ThreadIds : u < t => threads[u].pc # "idle"

\* thread t enters generate_tags_for_titles(items)
Begin(t, items) ==
    /\ Free(t)
    /\ nCalls < MaxCalls
    /\ nCalls' = nCalls + 1
    /\ LET th == [IdleThread EXCEPT !.pc = "scan", !.items = items,
                                    !.idx = 1, !.before = TAGS_CACHE]
       IN  Finish(t, IF items = <<>> THEN AfterScan(th, environ) ELSE th,
                  TAGS_CACHE)
    /\ UNCHANGED <<environ, genCalls, fetchVars, tagVars>>

\* line 88 in thread t: one round of the comprehension, the lookup of one
\* title in TAGS_CACHE; after the last round the thread goes on to line 132
Scan(t) ==
    /\ threads[t].pc = "scan"
    /\ LET th == threads[t]
           th1 == [th EXCEPT
                     !.uncached = @ \o UncachedItems(TAGS_CACHE,
                                                     <<th.items[th.idx]>>),
                     !.idx = @ + 1]
           th2 == IF th.idx = Len(th.items) THEN AfterScan(th1, environ)
                  ELSE th1
       IN  /\ genCalls' = genCalls \o th2.requests
           /\ Finish(t, th2, TAGS_CACHE)
    /\ UNCHANGED <<environ, nCalls, fetchVars, tagVars>>

\* lines 131-163 in thread t: the answer arrives; what the thread does
\* with it is what the function does with it for the items it found
\* uncached
Respond(t, outcome) ==
    /\ threads[t].pc = "waiting"
    /\ LET th == threads[t]
           r == generate_tags_for_titles(<<>>, environ, th.uncached, outcome)
           writes == CacheWrites(<<>>, environ, th.uncached, outcome)
       IN  Finish(t, [th EXCEPT
                        !.outcome = outcome,
                        !.raised = r.raised,
                        !.pending = IF r.raised # "none" THEN <<>> ELSE writes,
                        !.pc = IF r.raised # "none" \/ writes = <<>>
                               THEN "done" ELSE "writing"],
                  TAGS_CACHE)
    /\ UNCHANGED <<environ, genCalls, nCalls, fetchVars, tagVars>>

\* one assignment TAGS_CACHE[title] = ... of lines 100, 138, 148 or 176 in
\* thread t
Write(t) ==
    /\ threads[t].pc = "writing"
    /\ LET th == threads[t]
           title == th.pending[1][1]
           tags == th.pending[1][2]
           rest == Tail(th.pending)
           own == {th.writes[i][1] : i \in 1..Len(th.writes)}
       IN  Finish(t, [th EXCEPT
                        !.pc = IF rest = <<>> THEN "done" ELSE "writing",
                        !.pending = rest,
                        !.writes = Append(@, th.pending[1]),
                        !.replaced =
                            IF title \in DOMAIN TAGS_CACHE /\ title \notin own
                            THEN @ \cup {title} ELSE @],
                  Put(TAGS_CACHE, title, tags))
    /\ UNCHANGED <<environ, genCalls, nCalls, fetchVars, tagVars>>

\* line 29; the environment the process was started in; its threads call
\* generate_tags_for_titles directly
Init ==
    /\ TAGS_CACHE = <<>>
    /\ environ \in Environments
    /\ genCalls = <<>>
    /\ nCalls = 0
    /\ call = NoCall
    /\ InitOthers
    /\ server = NoServer
    /\ reply = NoReply
    /\ threads = [t \in ThreadIds |-> IdleThread]
    /\ overlapped = FALSE

\* the item lists and the answers of the calls of the second thread, which
\* is at work only while the first one is
ThreadItemLists ==
    {<<FeedItem(FooNews, <<"a">>)>>,
     <<FeedItem(BarNews, <<"b">>), FeedItem(FooNews, <<"a">>)>>}

ThreadOutcomes == {"URLError", "text_null", "two_lines"}

ItemListsOf(t) == IF t = 1 THEN ItemLists ELSE ThreadItemLists

OutcomesOf(t) == IF t = 1 THEN GenOutcomes ELSE ThreadOutcomes

Next ==
    \/ \E t \in ThreadIds : \E items \in ItemListsOf(t) : Begin(t, items)
    \/ \E t \in ThreadIds : Scan(t)
    \/ \E t \in ThreadIds : \E outcome \in OutcomesOf(t) : Respond(t, outcome)
    \/ \E t \in ThreadIds : Write(t)

Spec == Init /\ [][Next]_vars

---------------------------------------------------------------------------
(* Properties of generate_tags_for_titles.  They are stated of the call  *)
(* that ended last: call.before is the cache when it began, call.after   *)
(* the cache when it ended.                                               *)

Called == call # NoCall
CallTitles == Titles(call.items)
\* the titles of the call that had no entry when it began
CallUncached ==
    {t \in Range(CallTitles) : t # <<>> /\ t \notin DOMAIN call.before}
RequestSent == call.requests # <<>>
KeptEntries ==
    \A k \in DOMAIN call.before :
        k \in DOMAIN call.after /\ call.after[k] = call.before[k]
\* no two threads have been at work at the same time: the calls so far
\* came one after the other
Sequential == ~overlapped
WrittenKeys == {call.writes[i][1] : i \in 1..Len(call.writes)}

\* C1: after a call that returned, every input item has a cache entry.
C1_EveryItemCached ==
    (Called /\ call.raised = "none")
        => \A i \in 1..Len(call.items) :
               call.items[i].title \in DOMAIN call.after

\* C2: over calls that come one after the other, no cache key is part of
\* more than one generation request.
C2_OneRequestPerKey ==
    Sequential =>
        \A i, j \in 1..Len(genCalls) :
            i < j => Range(genCalls[i]) \cap Range(genCalls[j]) = {}

\* C3: a call whose items are all cached sends no generation request and
\* makes no assignment to the cache, however often it is repeated; with no
\* other call at work the cache is after the call what it was before.
C3_CachedItemsNoRequest ==
    (Called /\ \A i \in 1..Len(call.items) :
                   call.items[i].title \in DOMAIN call.before)
        => /\ ~RequestSent
           /\ call.raised = "none"
           /\ call.writes = <<>>
           /\ Sequential => call.after = call.before

C3_Witness ==
    /\ nCalls >= 2
    /\ Len(call.items) >= 2
    /\ \A i \in 1..Len(call.items) : call.items[i].title \in DOMAIN call.before
    /\ \E k \in DOMAIN call.before : call.before[k] # <<>>
    /\ ~NoKey(get_gemini_api_key(environ))

NoCredential ==
    /\ environ.GEMINI_API_KEY \in {None, ""}
    /\ environ.GOOGLE_API_KEY \in {None, ""}

\* C4: without a credential a call gives every uncached item the empty
\* list, sends no generation request and keeps the entries there were.
C4_NoCredentialEmptyTags ==
    (Called /\ NoCredential)
        => /\ ~RequestSent
           /\ \A t \in CallUncached :
                  t \in DOMAIN call.after /\ call.after[t] = <<>>
           /\ KeptEntries

C4_Witness ==
    /\ Called /\ NoCredential
    /\ CallUncached # {}
    /\ call.writes # <<>>
    /\ \E i \in 1..Len(call.items) : call.items[i].title \in DOMAIN call.before
    /\ environ.GEMINI_API_KEY = ""

\* the outcomes of C5: transport error, unparseable body, missing fields
FailedOutcomes ==
    {"URLError", "bad_json", "json_null", "empty_candidates", "no_text"}

\* C5: when the generation request fails, the call assigns the empty list
\* to every item it found uncached and to no other key, and no item of the
\* call is left without entry; with no other call at work these are the
\* only entries that differ from the cache before the call.
C5_FailureEmptiesBatch ==
    (Called /\ RequestSent /\ call.outcome \in FailedOutcomes)
        => /\ call.raised = "none"
           /\ call.writes = EmptyWrites(call.requests[1])
           /\ WrittenKeys = Range(Titles(call.uncached))
           /\ WrittenKeys \subseteq CallUncached
           /\ \A t \in CallUncached : t \in DOMAIN call.after
           /\ Sequential =>
                 /\ DOMAIN call.after = DOMAIN call.before \cup CallUncached
                 /\ \A t \in CallUncached : call.after[t] = <<>>
                 /\ KeptEntries

C5_Witness ==
    /\ Called /\ RequestSent /\ call.outcome \in FailedOutcomes
    /\ Cardinality(CallUncached) >= 2
    /\ Len(call.writes) >= 2
    /\ call.outcome = "empty_candidates"

\* C6: a call never ends with an exception.
C6_NeverRaises == call.raised = "none"

\* C9: when the completion has one non-empty line per uncached item, the
\* entry of the i-th uncached item holds the tags of line i (calls one
\* after the other).
C9_LinePairedWithItem ==
    (Sequential /\ Called /\ RequestSent /\ call.outcome \in CompletionTexts)
        => LET lines == NonEmptyLines(Strip(CompletionText(call.outcome)))
               sent == call.requests[1]
           IN  Len(lines) = Len(sent)
                   => \A i \in 1..Len(sent) :
                          /\ sent[i] \in DOMAIN call.after
                          /\ call.after[sent[i]] = LineTags(lines[i])

\* C17: over calls that come one after the other an entry, once set, is
\* never set to another value and never removed: not by a later call, not
\* by a later assignment of the same call.
C17_EntryNeverChanged ==
    (Sequential /\ Called) =>
        /\ KeptEntries
        /\ \A i \in 1..Len(call.writes) :
               /\ call.writes[i][1] \notin DOMAIN call.before
               /\ \A j \in 1..(i - 1) :
                      call.writes[j][1] = call.writes[i][1]
                          => call.writes[j][2] = call.writes[i][2]

\* C18: every entry, and every list assigned or about to be assigned, has
\* at most 3 tags.
C18_AtMostThreeTags ==
    /\ \A k \in DOMAIN TAGS_CACHE : Len(TAGS_CACHE[k]) <= 3
    /\ \A i \in 1..Len(call.writes) : Len(call.writes[i][2]) <= 3
    /\ \A t \in DOMAIN threads :
           \A i \in 1..Len(threads[t].pending) :
               Len(threads[t].pending[i][2]) <= 3

\* a line of four tags was answered and three of them were stored
C18_Witness ==
    /\ Called /\ call.outcome = "labelled"
    /\ Len(CleanTags(RawTags(NonEmptyLines(CompletionText("labelled"))[1]))) > 3
    /\ \E k \in DOMAIN TAGS_CACHE :
           k \notin DOMAIN call.before /\ Len(TAGS_CACHE[k]) = 3

\* C19: when the completion has k non-empty lines for N > k uncached items,
\* the first k of them have an entry and the other N-k have none (calls
\* one after the other).
C19_MissingLinesStayUncached ==
    (Sequential /\ Called /\ RequestSent /\ call.outcome \in CompletionTexts)
        => LET k == Len(NonEmptyLines(Strip(CompletionText(call.outcome))))
               sent == call.requests[1]
           IN  k < Len(sent)
                   => /\ \A i \in 1..k : sent[i] \in DOMAIN call.after
                      /\ \A i \in (k + 1)..Len(sent) :
                             sent[i] \notin DOMAIN call.after

\* C20: a call assigns only to keys of items that had no entry when it
\* began, surplus lines are ignored; with no other call at work every
\* other entry is after the call what it was before.
C20_OnlyUncachedKeysWritten ==
    Called =>
        /\ WrittenKeys \subseteq CallUncached
        /\ Len(call.writes) <= Len(call.uncached)
        /\ Sequential =>
              /\ KeptEntries
              /\ DOMAIN call.after \subseteq DOMAIN call.before \cup CallUncached

\* three lines were answered for fewer uncached items, next to a cached item
\* of the call and with tags in the cache
C20_Witness ==
    /\ Called /\ call.outcome = "three_lines"
    /\ Len(call.requests[1]) < 3
    /\ Len(call.writes) = Len(call.requests[1])
    /\ \E i \in 1..Len(call.items) :
           /\ call.items[i].title \in DOMAIN call.before
           /\ call.before[call.items[i].title] # <<>>

---------------------------------------------------------------------------
(* fetch_rss_items, lines 45-81. *)

\* (item.findtext(name) or ""): an item element is a record of the texts of
\* its children, a missing child is a missing field
TextOf(item, name) == IF name \in DOMAIN item THEN item[name] ELSE <<>>

\* lines 62-70 and 74-79
ParsedItem(item) ==
    [title |-> StripNumberPrefix(Strip(TextOf(item, "title"))),
     link |-> Strip(TextOf(item, "link")),
     summary |-> StripNumberPrefix(Strip(TextOf(item, "description"))),
     published |-> Strip(TextOf(item, "pubDate"))]

\* line 72
Usable(parsed) == parsed.title # <<>> /\ parsed.link # <<>>

\* lines 61-81
ChannelItems(elements, maxItems) ==
    LET taken == Take(elements, maxItems)
        parsed == [i \in 1..Len(taken) |-> ParsedItem(taken[i])]
    IN  SelectSeq(parsed, Usable)

FetchReturned(items) == [state |-> "done", raised |-> "none", items |-> items]
FetchRaised(e) == [state |-> "done", raised |-> e, items |-> <<>>]

\* response.kind is the exception urlopen or resp.read raised, or what the
\* body is: not XML, XML without a channel, or a channel with items
fetch_rss_items(response, maxItems) ==
    CASE response.kind \in {"URLError", "HTTPError"} -> FetchReturned(<<>>)
      [] response.kind = "TimeoutError" -> FetchRaised("TimeoutError")
      [] response.kind = "bad_xml" -> FetchRaised("ParseError")
      [] response.kind = "no_channel" -> FetchReturned(<<>>)
      [] response.kind = "rss" ->
            FetchReturned(ChannelItems(response.items, maxItems))

\* item elements of the enumerated documents
FeedElements ==
    {[title |-> <<"1", ".", " ">> \o FooNews, link |-> <<"a">>,
      description |-> <<"2", " ", "x", " ">>, pubDate |-> <<"d">>],
     [title |-> BarNews, link |-> <<" ", "b">>],
     [title |-> FooNews, description |-> <<"y">>],
     [title |-> <<" ", "\n">>, link |-> <<"c">>]}

Decimal(n) ==
    LET d == <<"0", "1", "2", "3", "4", "5", "6", "7", "8", "9">>
    IN  IF n < 10 THEN <<d[n + 1]>> ELSE <<d[(n \div 10) + 1], d[(n % 10) + 1]>>

\* a document of 20 item elements; those at the positions of noLink have no
\* link child, those at the positions of noTitle an empty title
Feed20(noLink, noTitle) ==
    [i \in 1..20 |->
        IF i \in noLink THEN [title |-> <<"N">> \o Decimal(i)]
        ELSE [title |-> IF i \in noTitle THEN <<>> ELSE <<"N">> \o Decimal(i),
              link |-> <<"u">> \o Decimal(i)]]

FeedDocuments ==
    SeqsUpTo(FeedElements, MaxFeedLen)
    \cup {Feed20({}, {}), Feed20({1}, {}), Feed20({4, 12}, {}),
          Feed20({}, {10}), Feed20({20}, {11})}

FeedResponses ==
    {[kind |-> k, items |-> <<>>] :
        k \in {"URLError", "HTTPError", "TimeoutError", "bad_xml", "no_channel"}}
    \cup {[kind |-> "rss", items |-> d] : d \in FeedDocuments}

MaxItemsArguments == {1, 2, 10, 20}

InitService ==
    /\ TAGS_CACHE = <<>>
    /\ environ = [GEMINI_API_KEY |-> None, GOOGLE_API_KEY |-> None]
    /\ genCalls = <<>>
    /\ nCalls = 0
    /\ call = NoCall

InitFetch ==
    /\ InitService
    /\ feed \in FeedResponses
    /\ max_items \in MaxItemsArguments
    /\ fetched = NoFetch
    /\ fragment = <<>>
    /\ cleaned = NoFragment
    /\ InitNoServer

Fetch ==
    /\ fetched.state = "idle"
    /\ fetched' = fetch_rss_items(feed, max_items)
    /\ UNCHANGED <<serviceVars, feed, max_items, tagVars, serverVars, threadVars>>

NextFetch == Fetch

SpecFetch == InitFetch /\ [][NextFetch]_vars

\* C7: fetch_rss_items never raises; on a failed request, a body that is not
\* XML or a document without channel it returns the empty list.
C7_FetchNeverRaises ==
    fetched.state = "done"
        => /\ fetched.raised = "none"
           /\ feed.kind # "rss" => fetched.items = <<>>

\* the usable items of a document, in document order
UsableItems(elements) ==
    SelectSeq([i \in 1..Len(elements) |-> ParsedItem(elements[i])], Usable)

\* C8: of a document of 20 items with at least 10 usable ones,
\* fetch_rss_items(url, 10) returns the first 10 usable items.
C8_TenUsableOfTwenty ==
    (/\ fetched.state = "done"
     /\ feed.kind = "rss"
     /\ Len(feed.items) = 20
     /\ max_items = 10
     /\ Len(UsableItems(feed.items)) >= 10)
        => /\ fetched.raised = "none"
           /\ fetched.items = Take(UsableItems(feed.items), 10)

---------------------------------------------------------------------------
(* The cleaning of one tag fragment, lines 165-173. *)

\* isValidTag of the specification: a tag is rejected when it is empty or
\* made of digits, circled numbers, dots, ideographic commas, parentheses
\* and whitespace only
NotTagCharacters ==
    Digit \cup Whitespace
    \cup {".", "U+FF0E", "U+3001", "(", ")", "U+FF08", "U+FF09"}

isValidTag(tag) == \E i \in 1..Len(tag) : tag[i] \notin NotTagCharacters

\* characters of the enumerated fragments: a digit, a dot, a space, an
\* ideograph, a circled digit and a parenthesis
TagAlphabet == {"1", ".", " ", "U+7D4C", "U+2460", "("}

\* the elements of raw_tags are stripped (line 161)
Fragments == {f \in SeqsUpTo(TagAlphabet, MaxFragLen) : Strip(f) = f}

InitTags ==
    /\ InitService
    /\ feed = [kind |-> "none", items |-> <<>>]
    /\ max_items = 0
    /\ fetched = NoFetch
    /\ fragment \in Fragments
    /\ cleaned = NoFragment
    /\ InitNoServer

\* one round of the loop of lines 165-173
CleanFragment ==
    /\ cleaned.state = "idle"
    /\ LET t == StripNumberPrefix(Strip(fragment))
       IN  cleaned' = [state |-> "done", tag |-> t, kept |-> KeepTag(t)]
    /\ UNCHANGED <<serviceVars, fetchVars, fragment, serverVars, threadVars>>

NextTags == CleanFragment

SpecTags == InitTags /\ [][NextTags]_vars

\* C10: the filter of line 172 keeps a cleaned fragment exactly when
\* isValidTag accepts it.
C10_FilterIsValidTag ==
    cleaned.state = "done" => (cleaned.kept <=> isValidTag(cleaned.tag))

\* stripLeadingMarker of the specification: a prefix of one or more ASCII or
\* full-width digits followed by a separator, or a circled number with or
\* without a separator after it, is removed and the rest is trimmed; any
\* other text is returned as it is
MarkerDigits ==
    {"0", "1", "2", "3", "4", "5", "6", "7", "8", "9",
     "U+FF10", "U+FF11", "U+FF12", "U+FF13", "U+FF14",
     "U+FF15", "U+FF16", "U+FF17", "U+FF18", "U+FF19"}

CircledNumbers ==
    {"U+2460", "U+2461", "U+2462", "U+2463", "U+2464", "U+2465", "U+2466",
     "U+2467", "U+2468", "U+2469", "U+246A", "U+246B", "U+246C", "U+246D",
     "U+246E", "U+246F", "U+2470", "U+2471", "U+2472", "U+2473"}

Separators == {".", "U+FF0E", "U+3001", ")"} \cup Whitespace

RECURSIVE DigitRun(_)
DigitRun(text) ==
    IF text # <<>> /\ Head(text) \in MarkerDigits
    THEN 1 + DigitRun(Tail(text)) ELSE 0

stripLeadingMarker(text) ==
    LET n == DigitRun(text)
    IN  IF n > 0 /\ Len(text) > n /\ text[n + 1] \in Separators
        THEN Strip(SubSeq(text, n + 2, Len(text)))
        ELSE IF text # <<>> /\ text[1] \in CircledNumbers
        THEN IF Len(text) > 1 /\ text[2] \in Separators
             THEN Strip(SubSeq(text, 3, Len(text)))
             ELSE Strip(SubSeq(text, 2, Len(text)))
        ELSE text

\* C15: the stripping of lines 168-169 (and 67-70) removes a leading marker of
\* one or more digits or a circled number with its separator, and leaves a
\* text without such a marker as it is.
C15_StripsLeadingMarker ==
    cleaned.state = "done" => cleaned.tag = stripLeadingMarker(Strip(fragment))

---------------------------------------------------------------------------
(* The HTTP service: start of the process and get_category_news,           *)
(* lines 186-230.  The server runs each request in a thread of its own.    *)

MaxRequests == 2   \* requests accepted in one behaviour

\* the keys of CATEGORY_FEEDS_URLS (lines 17-23), each with the topic of its
\* feed URL
CATEGORY_FEEDS_URLS ==
    (<<"U+653F", "U+6CBB">> :> "POLITICS")
    @@ (<<"U+7D4C", "U+6E08">> :> "BUSINESS")
    @@ (<<"I", "T", "U+30FB", "U+79D1", "U+5B66">> :> "SCIENCE")
    @@ (<<"U+56FD", "U+969B">> :> "WORLD")
    @@ (<<"U+30C6", "U+30AF", "U+30CE", "U+30ED", "U+30B8", "U+30FC">>
            :> "TECHNOLOGY")

\* the category names of the requests: a key of the table and a name that
\* is none
RequestCategories == {<<"U+653F", "U+6CBB">>, <<"s", "p", "o", "r", "t">>}

\* two articles
TwoArticles ==
    [kind |-> "rss",
     items |-> <<[title |-> <<"1", ".", " ">> \o FooNews, link |-> <<"a">>,
                  description |-> <<"2", " ", "x", " ">>],
                 [title |-> BarNews, link |-> <<" ", "b">>]>>]

\* one article, with the link of the second of TwoArticles under another
\* headline
Retitled == [kind |-> "rss", items |-> <<[title |-> FooNews, link |-> <<"b">>]>>]

\* what the feed URL answers to the requests: failures, a document without
\* usable item, the documents above, 20 articles of which the first has no
\* link
ServerFeeds ==
    {[kind |-> k, items |-> <<>>] : k \in {"URLError", "bad_xml", "no_channel"}}
    \cup {[kind |-> "rss",
           items |-> <<[title |-> FooNews, description |-> <<"y">>]>>],
          TwoArticles, Retitled,
          [kind |-> "rss", items |-> Feed20({1}, {})]}

\* the requests of the second thread, which is at work only while the
\* first one is
CategoriesOf(t) ==
    IF t = 1 THEN RequestCategories ELSE {<<"U+653F", "U+6CBB">>}

FeedsOf(t) == IF t = 1 THEN ServerFeeds ELSE {TwoArticles}

\* what the generation requests of the service are answered
ServerOutcomesOf(t) ==
    IF t = 1 THEN {"URLError", "text_null", "two_lines"}
    ELSE {"URLError", "two_lines"}

\* line 201
CredentialMissing(env) == NoKey(get_gemini_api_key(env))

\* a handler that forgets the slice of line 206
TargetItems_Mut(items) == items

\* line 206
TargetItems(items) == Take(items, 10)

\* line 211: TAGS_CACHE.get(item["title"], [])
CachedTags(cache, title) == IF title \in DOMAIN cache THEN cache[title] ELSE <<>>

\* what the cache holds for a title at the moment it is looked up
Lookup(cache, title) ==
    IF title \in DOMAIN cache THEN [cached |-> TRUE, tags |-> cache[title]]
    ELSE [cached |-> FALSE, tags |-> <<>>]

\* lines 209-218
ResultItems(cache, target_items) ==
    [i \in 1..Len(target_items) |->
        [title |-> target_items[i].title,
         summary |-> target_items[i].summary,
         link |-> target_items[i].link,
         tags |-> CachedTags(cache, target_items[i].title)]]

\* the module was imported (lines 12-29), nothing has run yet
Loaded == [mode |-> "none", phase |-> "loaded", clears |-> 0, requests |-> 0,
           tagged |-> {}, taggedBefore |-> {}, sent |-> {}]

InitServer ==
    /\ TAGS_CACHE = <<>>
    /\ environ \in Environments
    /\ genCalls = <<>>
    /\ nCalls = 0
    /\ call = NoCall
    /\ InitOthers
    /\ server = Loaded
    /\ reply = NoReply
    /\ threads = [t \in ThreadIds |-> IdleThread]
    /\ overlapped = FALSE

\* lines 32-36
clear_tag_cache == TAGS_CACHE' = <<>>

\* lines 225-230: the file is run as a script
RunAsScript ==
    /\ server.phase = "loaded"
    /\ clear_tag_cache
    /\ server' = [server EXCEPT !.mode = "script", !.phase = "serving",
                                !.clears = @ + 1]
    /\ UNCHANGED <<environ, genCalls, nCalls, call, fetchVars, tagVars,
                   reply, threadVars>>

\* an HTTP server imports the module and serves its app object: the block of
\* line 225 is not run
LoadIntoHost ==
    /\ server.phase = "loaded"
    /\ server' = [server EXCEPT !.mode = "hosted", !.phase = "serving"]
    /\ UNCHANGED <<TAGS_CACHE, environ, genCalls, nCalls, call, fetchVars,
                   tagVars, reply, threadVars>>

\* lines 186-195 in thread t: a request comes in; an unknown category is
\* answered at once, for a known one the thread waits for the feed
Accept(t, category_name) ==
    /\ server.phase = "serving"
    /\ server.requests < MaxRequests
    /\ Free(t)
    /\ LET th == [IdleThread EXCEPT !.view = TRUE,
                                    !.category = category_name,
                                    !.accepted = TAGS_CACHE]
       IN  IF category_name \notin DOMAIN CATEGORY_FEEDS_URLS
           THEN /\ reply' = Reply(404, "error", th, TAGS_CACHE)
                /\ UNCHANGED threads
           ELSE /\ reply' = NoReply
                /\ threads' = [threads EXCEPT
                                 ![t] = [th EXCEPT !.pc = "fetching"]]
    /\ server' = [server EXCEPT !.requests = @ + 1]
    /\ overlapped' = (overlapped \/ \A u \in ThreadIds : threads'[u].pc # "idle")
    /\ UNCHANGED <<TAGS_CACHE, environ, genCalls, nCalls, call, fetchVars,
                   tagVars>>

\* lines 195-207 in thread t: fetch_rss_items(feed_url, max_items=20) ends;
\* an exception that leaves the view function is answered by Flask with
\* status 500; with items and a credential the thread enters
\* generate_tags_for_titles
Fetched(t, response) ==
    /\ threads[t].pc = "fetching"
    /\ LET got == fetch_rss_items(response, 20)
           th == [threads[t] EXCEPT !.fetched = got]
           early == got.raised # "none" \/ got.items = <<>>
                    \/ CredentialMissing(environ)
       IN  IF early
           THEN /\ reply' = Reply(500,
                                  IF got.raised # "none" THEN "exception"
                                  ELSE "error",
                                  th, TAGS_CACHE)
                /\ threads' = [threads EXCEPT ![t] = IdleThread]
                /\ overlapped' = overlapped
                /\ UNCHANGED <<TAGS_CACHE, nCalls, call, server>>
           ELSE /\ nCalls' = nCalls + 1
                /\ Finish(t, [th EXCEPT !.pc = "scan",
                                        !.items = TargetItems(got.items),
                                        !.idx = 1,
                                        !.before = TAGS_CACHE],
                          TAGS_CACHE)
    /\ UNCHANGED <<environ, genCalls, fetchVars, tagVars>>

\* lines 210-218 in thread t: one round of the loop, the lookup of one title
\* in TAGS_CACHE; after the last round the response is sent (line 220)
Assemble(t) ==
    /\ threads[t].pc = "assemble"
    /\ LET th == threads[t]
           th2 == [th EXCEPT
                     !.news = @ \o ResultItems(TAGS_CACHE, <<th.items[th.idx]>>),
                     !.looked = Append(@, Lookup(TAGS_CACHE,
                                                 th.items[th.idx].title)),
                     !.idx = @ + 1]
       IN  IF th.idx = Len(th.items)
           THEN /\ reply' = Reply(200, "news", th2, TAGS_CACHE)
                /\ threads' = [threads EXCEPT ![t] = IdleThread]
           ELSE /\ threads' = [threads EXCEPT ![t] = th2]
                /\ UNCHANGED reply
    /\ UNCHANGED <<serviceVars, fetchVars, tagVars, server, overlapped>>

NextServer ==
    \/ RunAsScript
    \/ LoadIntoHost
    \/ \E t \in ThreadIds : \E category_name \in CategoriesOf(t) :
            Accept(t, category_name)
    \/ \E t \in ThreadIds : \E response \in FeedsOf(t) : Fetched(t, response)
    \/ \E t \in ThreadIds : Scan(t)
    \/ \E t \in ThreadIds : \E outcome \in ServerOutcomesOf(t) :
            Respond(t, outcome)
    \/ \E t \in ThreadIds : Write(t)
    \/ \E t \in ThreadIds : Assemble(t)

SpecServer == InitServer /\ [][NextServer]_vars

Answered == reply # NoReply

KnownCategory == reply.category \in DOMAIN CATEGORY_FEEDS_URLS

\* C11: over requests that come one after the other, a link whose item was
\* given tags by an earlier request is in no generation call of a later
\* request, whatever title the feed now gives it.
C11_TaggedLinkNeverSentAgain ==
    Sequential => server.sent \cap server.taggedBefore = {}

\* C12: an unknown category is answered with an error and 404, a feed that
\* gave no usable item and a missing credential with an error and 500; in the
\* three cases the request sends no generation request and makes no
\* assignment to the cache, which with no other request at work is after the
\* request what it was before.  A feed whose fetch failed gave no usable
\* item, and a request with no credential is one whatever its feed gave.
C12_ErrorRepliesLeaveCache ==
    LET Refused(status) ==
            /\ reply.status = status /\ reply.body = "error"
            /\ reply.requests = <<>> /\ reply.writes = <<>>
            /\ Sequential => reply.after = reply.before
    IN  Answered =>
            /\ ~KnownCategory => Refused(404)
            /\ (KnownCategory /\ reply.fetched.items = <<>>) => Refused(500)
            /\ (KnownCategory /\ NoCredential) => Refused(500)

\* C13: a successful request returns the first min(10, n) of the n fetched
\* items in their order, each with the tags the cache held for it when the
\* loop of line 210 looked it up, or with no tag when the cache had no entry
\* for it; with no other request at work that cache is the cache at the
\* time of the response.
C13_FirstTenWithCachedTags ==
    (Answered /\ reply.status = 200) =>
        LET n == Len(reply.fetched.items)
            m == IF n < 10 THEN n ELSE 10
        IN  /\ Len(reply.news) = m
            /\ Len(reply.looked) = m
            /\ \A i \in 1..m :
                 LET item == reply.fetched.items[i]
                 IN  /\ reply.news[i].title = item.title
                     /\ reply.news[i].link = item.link
                     /\ reply.news[i].summary = item.summary
                     /\ reply.news[i].tags =
                          IF reply.looked[i].cached THEN reply.looked[i].tags
                          ELSE <<>>
                     /\ Sequential =>
                          reply.looked[i] = Lookup(reply.after, item.title)

\* more than ten items fetched, some returned with tags and some with an
\* empty list
C13_Witness ==
    /\ Answered /\ reply.status = 200
    /\ Len(reply.fetched.items) > 10
    /\ \E i \in 1..Len(reply.news) : reply.news[i].tags # <<>>
    /\ \E i \in 1..Len(reply.news) :
           /\ reply.news[i].tags = <<>>
           /\ reply.news[i].title \notin DOMAIN reply.after

\* C14: however the service was started, the cache was cleared exactly once
\* before the first request was handled.
C14_ClearedOnceBeforeRequests ==
    server.phase = "serving" => server.clears = 1

---------------------------------------------------------------------------
(* Two overlapping calls of generate_tags_for_titles on items that share   *)
(* a title.                                                                *)

\* the requests got past the test of line 201
InitThreads ==
    /\ TAGS_CACHE = <<>>
    /\ environ \in {env \in Environments : ~CredentialMissing(env)}
    /\ genCalls = <<>>
    /\ nCalls = 0
    /\ call = NoCall
    /\ InitOthers
    /\ server = NoServer
    /\ reply = NoReply
    /\ threads = [t \in ThreadIds |-> IdleThread]
    /\ overlapped = FALSE

NextThreads ==
    \/ \E t \in ThreadIds, items \in ThreadItemLists : Begin(t, items)
    \/ \E t \in ThreadIds : Scan(t)
    \/ \E t \in ThreadIds, outcome \in ThreadOutcomes : Respond(t, outcome)
    \/ \E t \in ThreadIds : Write(t)

SpecThreads == InitThreads /\ [][NextThreads]_vars

\* C16: a call assigns no key that another call has put into the cache
\* since it began: of two overlapping calls that found the same key
\* uncached only one writes it, and no stored entry is overwritten.
C16_NoLostUpdate ==
    /\ call.replaced = {}
    /\ \A t \in DOMAIN threads : threads[t].replaced = {}

====
